---- MODULE Spec2Model ----
(***************************************************************************)
(* Model of the grid/token game of this repository.                        *)
(*                                                                         *)
(* The repository holds several stand-alone programs (variants) that share *)
(* names.  Two are modelled here:                                           *)
(*   "persisted"  : src/unnamed/part_000 lines 237-666 (flyweight+memento) *)
(*   "memoryless" : src/src/main.ts                                        *)
(* A behaviour is a run of ONE variant; the variable `variant` is chosen    *)
(* by Init and never changes.                                              *)
(*                                                                         *)
(* Geographic coordinates are fixed-point: one unit is 0.00001 degree, so  *)
(* TILE_DEGREES (0.0001 degree) is 10 units and every latitude/longitude   *)
(* the model uses is an integer.  Math.floor(x / TILE_DEGREES) is \div,    *)
(* which rounds towards minus infinity.                                    *)
(*                                                                         *)
(* JavaScript null is modelled by the integer NULL, which is no number the *)
(* programs compute with.                                                  *)
(***************************************************************************)
EXTENDS Integers, Sequences, FiniteSets, TLC

VARIABLES
    variant,          \* which program runs: "persisted" or "memoryless"
    playerLatLng,     \* let playerLatLng
    mapCenter,        \* centre of the leaflet map view (map.getCenter())
    heldToken,        \* let heldToken : number | null
    worldState,       \* persisted variant: Map<string, number|null>
    visibleCellState, \* memoryless variant: Map<string, number|null>
    gridCells,        \* rectangles of gridLayers: real cell -> tokenVal seen by the redraw
    movementMode,     \* persisted variant: "wasd" | "geo"
    wasdListening,    \* keydown listener attached
    geoWatchId,       \* GeoMovement.watchId
    localStorage,     \* the four items d3_world_state, d3_player_position, d3_held_token, d3_movement_mode
    alerts,           \* the alert() calls of the last handler, in order
    lastEvent,        \* history: the outcome of the last click and the cell it changed
    written,          \* history: cell key -> value written by the last successful interaction on it
    inventoryValue,   \* first variant: let inventoryValue (0 when nothing is held)
    cellOverrides,    \* first variant: Map<string, number>
    scriptFailed,     \* persisted variant: the top level of the module stopped on an exception
    geoWatches        \* persisted variant: number of geolocation watches not cleared

vars == <<variant, playerLatLng, mapCenter, heldToken, worldState, visibleCellState,
          gridCells, movementMode, wasdListening, geoWatchId, localStorage, alerts, lastEvent, written,
          inventoryValue, cellOverrides, scriptFailed, geoWatches>>

---------------------------------------------------------------------------
(* Bounds of the model *)

\* WASD moves stay north and east of the start position, at most MaxMove steps from it
MaxMove == 1
\* half extent of the map viewport, in units, along each axis
ViewHalf == 1

---------------------------------------------------------------------------
(* Constants of the programs *)

NULL == -1

GRID_ORIGIN == [lat |-> 0, lng |-> 0]
\* 36.997936938057016, -122.05703507501151 in units of 0.00001 degree
VISUAL_ORIGIN == [lat |-> 3699794, lng |-> -12205704]
TILE_DEGREES == 10
INTERACT_RANGE == 3

LS_WORLD == "d3_world_state"
LS_PLAYER == "d3_player_position"
LS_HELD == "d3_held_token"
LS_MODE == "d3_movement_mode"
LS_KEYS == {LS_WORLD, LS_PLAYER, LS_HELD, LS_MODE}

---------------------------------------------------------------------------
(* Inputs of the environment *)

latLng(lat, lng) == [lat |-> lat, lng |-> lng]

\* positions the user drags the map to
PanCenters ==
    { latLng(VISUAL_ORIGIN.lat + 5 * TILE_DEGREES, VISUAL_ORIGIN.lng + 2 * TILE_DEGREES) }

\* positions the geolocation watch reports
GeoPositions ==
    { latLng(VISUAL_ORIGIN.lat + TILE_DEGREES, VISUAL_ORIGIN.lng) }

WasdKeys == {"w", "a", "s", "d"}

\* the rectangles the user clicks, as offsets from the cell of the start position:
\* two generated tokens of value 1 next to the start, a generated token of value 2
\* four cells north of it, and an empty cell four cells east of it
ClickOffsets == {<<0, 2>>, <<-1, 2>>, <<4, 3>>, <<3, 4>>}
ClickCells ==
    { [i |-> (VISUAL_ORIGIN.lat - GRID_ORIGIN.lat) \div TILE_DEGREES + d[1],
       j |-> (VISUAL_ORIGIN.lng - GRID_ORIGIN.lng) \div TILE_DEGREES + d[2]] : d \in ClickOffsets }

InMoveWindow(p) ==
    /\ p.lat >= VISUAL_ORIGIN.lat
    /\ p.lng >= VISUAL_ORIGIN.lng
    /\ (p.lat - VISUAL_ORIGIN.lat) + (p.lng - VISUAL_ORIGIN.lng) <= MaxMove * TILE_DEGREES

---------------------------------------------------------------------------
(* Coordinate helpers *)

latLngToRealCell(p) ==
    [i |-> (p.lat - GRID_ORIGIN.lat) \div TILE_DEGREES,
     j |-> (p.lng - GRID_ORIGIN.lng) \div TILE_DEGREES]

latLngToVisualCell(p) ==
    [i |-> (VISUAL_ORIGIN.lat - p.lat) \div TILE_DEGREES,
     j |-> (p.lng - VISUAL_ORIGIN.lng) \div TILE_DEGREES]

\* leaflet.latLngBounds([[lat1, lng1], [lat2, lng2]]) as its two corners
visualCellToBounds(i, j) ==
    LET lat1 == VISUAL_ORIGIN.lat - i * TILE_DEGREES
        lng1 == VISUAL_ORIGIN.lng + j * TILE_DEGREES
        lat2 == lat1 - TILE_DEGREES
        lng2 == lng1 + TILE_DEGREES
    IN  [lat1 |-> lat1, lng1 |-> lng1, lat2 |-> lat2, lng2 |-> lng2]

\* LatLngBounds.getCenter()
getCenter(b) == latLng((b.lat1 + b.lat2) \div 2, (b.lng1 + b.lng2) \div 2)

\* map.getBounds(): the viewport around the centre of the view
getBounds(center) ==
    [nw |-> latLng(center.lat + ViewHalf, center.lng - ViewHalf),
     se |-> latLng(center.lat - ViewHalf, center.lng + ViewHalf)]

\* `${i},${j}`
key(i, j) == ToString(i) \o "," \o ToString(j)

Abs(x) == IF x < 0 THEN -x ELSE x

---------------------------------------------------------------------------
(* Token generator *)

\* luck(`${i},${j}`) in thousandths: a fixed hash of the coordinate in 0..999
luck(i, j) == (57 * i + 815 * j) % 1000

\* the spawn rule of getCellToken / getTokenForCell for a cell without entry
spawnValue(i, j) ==
    LET roll == luck(i, j)
    IN  IF roll < 150 THEN (IF roll < 75 THEN 1 ELSE 2) ELSE NULL

\* the spawn rule of getTokenValue (first variant) for a cell without override
spawnValueFirst(i, j) ==
    LET r == luck(i, j)
    IN  IF r < 150 THEN 1 ELSE 0

getCellToken(ws, i, j) ==
    LET k == key(i, j)
    IN  IF k \in DOMAIN ws THEN ws[k] ELSE spawnValue(i, j)

\* Map.set(k, v)
MapSet(m, k, v) == [x \in (DOMAIN m) \cup {k} |-> IF x = k THEN v ELSE m[x]]

EmptyMap == [x \in {} |-> NULL]

---------------------------------------------------------------------------
(* Interaction range and win condition *)

\* mutant: only the latitude axis is compared
isCellNearby_LatOnly(p, i, j) ==
    LET pc == latLngToRealCell(p)
    IN  Abs(pc.i - i) <= INTERACT_RANGE

isCellNearby(p, i, j) ==
    LET pc == latLngToRealCell(p)
    IN  /\ Abs(pc.i - i) <= INTERACT_RANGE
        /\ Abs(pc.j - j) <= INTERACT_RANGE

\* the alerts one call of checkWin raises
checkWin(held) == IF held # NULL /\ held >= 50 THEN <<"You win!">> ELSE <<>>

\* mutant: the inventory text is set without the win check
updateInventoryUI_NoCheck(held) == <<>>

\* updateInventoryUI sets the inventory text and calls checkWin
updateInventoryUI(held) == checkWin(held)

---------------------------------------------------------------------------
(* Grid drawing *)

\* the real cells of the rectangles one redraw creates for the view centred at center
DrawnCells(center) ==
    LET bounds == getBounds(center)
        tl == latLngToVisualCell(bounds.nw)
        br == latLngToVisualCell(bounds.se)
    IN  { latLngToRealCell(getCenter(visualCellToBounds(i_vis, j_vis))) :
            i_vis \in (tl.i - 1)..(br.i + 1), j_vis \in (tl.j - 1)..(br.j + 1) }

\* the visual cells (i_vis, j_vis) one redraw draws a rectangle for
VisualCells(center) ==
    LET bounds == getBounds(center)
        tl == latLngToVisualCell(bounds.nw)
        br == latLngToVisualCell(bounds.se)
    IN  [i : (tl.i - 1)..(br.i + 1), j : (tl.j - 1)..(br.j + 1)]

\* persisted variant: every rectangle gets a click handler for its real cell;
\* tokenVal is only used for the label
redrawGrid(ws, center) ==
    [c \in DrawnCells(center) |-> getCellToken(ws, c.i, c.j)]

---------------------------------------------------------------------------
(* Persistence: JSON text and localStorage items *)

\* an item of localStorage: <<>> when getItem returns null, <<text>> otherwise
NoItem == <<>>
Item(text) == <<text>>

\* JSON.stringify of a number | null
JSON_stringify(v) == IF v = NULL THEN "null" ELSE ToString(v)

\* JSON.parse of the text of a number | null; S holds the numbers the model can meet
JSON_parse(text, S) ==
    IF text = "null" THEN NULL ELSE CHOOSE n \in S : ToString(n) = text

\* JSON.parse accepts the text of a number | null
IsJSON(text, S) == text = "null" \/ \E n \in S : ToString(n) = text

\* a text JSON.parse rejects with a SyntaxError
Broken == "{"

\* the token numbers a stored text can hold: 0 and the powers of two up to 64
TokenNumbers == {0, 1, 2, 4, 8, 16, 32, 64}
LatNumbers == { VISUAL_ORIGIN.lat + d * TILE_DEGREES : d \in (-1)..(MaxMove + 1) }
LngNumbers == { VISUAL_ORIGIN.lng + d * TILE_DEGREES : d \in (-1)..(MaxMove + 1) }

\* mutant: the held token is not written
saveGame_HeldNotSaved(ws, p, held, mode) ==
    (LS_WORLD :> Item([k \in DOMAIN ws |-> JSON_stringify(ws[k])]))
    @@ (LS_PLAYER :> Item([lat |-> ToString(p.lat), lng |-> ToString(p.lng)]))
    @@ (LS_HELD :> NoItem)
    @@ (LS_MODE :> Item(mode))

\* the four setItem calls of saveGame
saveGame(ws, p, held, mode) ==
    (LS_WORLD :> Item([k \in DOMAIN ws |-> JSON_stringify(ws[k])]))
    @@ (LS_PLAYER :> Item([lat |-> ToString(p.lat), lng |-> ToString(p.lng)]))
    @@ (LS_HELD :> Item(JSON_stringify(held)))
    @@ (LS_MODE :> Item(mode))

\* the JSON.parse call of loadGame that throws on the items ls: 1 (world state),
\* 2 (player position), 3 (held token), or 0 when loadGame returns
loadGameThrowsAt(ls) ==
    LET ws == ls[LS_WORLD]
        pp == ls[LS_PLAYER]
        ht == ls[LS_HELD]
    IN  IF ws # NoItem /\ \E k \in DOMAIN ws[1] : ~IsJSON(ws[1][k], TokenNumbers)
        THEN 1
        ELSE IF pp # NoItem /\ ~(IsJSON(pp[1].lat, LatNumbers) /\ IsJSON(pp[1].lng, LngNumbers))
        THEN 2
        ELSE IF ht # NoItem /\ ~IsJSON(ht[1], TokenNumbers)
        THEN 3
        ELSE 0

\* mutant: entries whose value is null are not restored
loadGame_DropsEmpty(ls) ==
    LET ws == ls[LS_WORLD]
        pp == ls[LS_PLAYER]
        ht == ls[LS_HELD]
        mm == ls[LS_MODE]
        at == loadGameThrowsAt(ls)
    IN  [worldState |->
            IF ws # NoItem /\ at # 1
            THEN [k \in { x \in DOMAIN ws[1] : ws[1][x] # "null" } |->
                    JSON_parse(ws[1][k], TokenNumbers)]
            ELSE EmptyMap,
         playerLatLng |->
            IF pp # NoItem /\ at \notin {1, 2}
            THEN latLng(JSON_parse(pp[1].lat, LatNumbers), JSON_parse(pp[1].lng, LngNumbers))
            ELSE VISUAL_ORIGIN,
         heldToken |->
            IF ht # NoItem /\ at = 0 THEN JSON_parse(ht[1], TokenNumbers) ELSE NULL,
         movementMode |->
            IF (mm = Item("geo") \/ mm = Item("wasd")) /\ at = 0 THEN mm[1] ELSE "wasd"]

\* loadGame in a fresh process: the state variables start at their defaults and
\* keep them from the statement that throws on
loadGame(ls) ==
    LET ws == ls[LS_WORLD]
        pp == ls[LS_PLAYER]
        ht == ls[LS_HELD]
        mm == ls[LS_MODE]
        at == loadGameThrowsAt(ls)
    IN  [worldState |->
            IF ws # NoItem /\ at # 1
            THEN [k \in DOMAIN ws[1] |-> JSON_parse(ws[1][k], TokenNumbers)]
            ELSE EmptyMap,
         playerLatLng |->
            IF pp # NoItem /\ at \notin {1, 2}
            THEN latLng(JSON_parse(pp[1].lat, LatNumbers), JSON_parse(pp[1].lng, LngNumbers))
            ELSE VISUAL_ORIGIN,
         heldToken |->
            IF ht # NoItem /\ at = 0 THEN JSON_parse(ht[1], TokenNumbers) ELSE NULL,
         movementMode |->
            IF (mm = Item("geo") \/ mm = Item("wasd")) /\ at = 0 THEN mm[1] ELSE "wasd"]

\* the four removeItem calls of newGame
ClearedStorage == [k \in LS_KEYS |-> NoItem]

\* item k with a text JSON.parse rejects
BrokenItem(k) ==
    IF k = LS_WORLD THEN Item([x \in {"0,0"} |-> Broken])
    ELSE IF k = LS_PLAYER THEN Item([lat |-> Broken, lng |-> ToString(VISUAL_ORIGIN.lng)])
    ELSE Item(Broken)

\* the items a long game left: a token of 32 is held and a token of 32 lies on the
\* cell one south and two east of the start cell (only the entries of the cells the
\* model clicks are listed)
LateGame ==
    saveGame(MapSet(EmptyMap,
                    key(latLngToRealCell(VISUAL_ORIGIN).i - 1,
                        latLngToRealCell(VISUAL_ORIGIN).j + 2), 32),
             VISUAL_ORIGIN, 32, "wasd")

\* the items the page finds when it is opened: none, the items of a long game, or
\* the items of an earlier session one of which was damaged since
StoredGames ==
    {ClearedStorage, LateGame}
    \cup { [saveGame(EmptyMap, VISUAL_ORIGIN, NULL, "wasd") EXCEPT ![k] = BrokenItem(k)] :
             k \in {LS_WORLD, LS_PLAYER, LS_HELD} }

---------------------------------------------------------------------------
(* Movement facade *)

\* mutant: the switch to geolocation leaves the keydown listener attached
applyMovementMode_KeepsKeyboard(mode, listening, watchId, watches, hasGeo) ==
    IF mode = "wasd"
    THEN [wasdListening |-> TRUE, geoWatchId |-> NULL,
          geoWatches |-> IF watchId # NULL THEN watches - 1 ELSE watches,
          alerts |-> <<>>]
    ELSE IF ~hasGeo
         THEN [wasdListening |-> listening, geoWatchId |-> watchId, geoWatches |-> watches,
               alerts |-> <<"Geolocation not supported">>]
         ELSE [wasdListening |-> listening, geoWatchId |-> 1, geoWatches |-> watches + 1,
               alerts |-> <<>>]

\* applyMovementMode: the subscriptions after it ran, and the alerts it raised
\* (addEventListener keeps one registration of the same handler; every
\* watchPosition call registers a new watch; clearWatch ends the watch watchId)
applyMovementMode(mode, listening, watchId, watches, hasGeo) ==
    IF mode = "wasd"
    THEN \* geo.disable(); wasd.enable()
         [wasdListening |-> TRUE, geoWatchId |-> NULL,
          geoWatches |-> IF watchId # NULL THEN watches - 1 ELSE watches,
          alerts |-> <<>>]
    ELSE \* wasd.disable(); geo.enable()
         IF ~hasGeo
         THEN [wasdListening |-> FALSE, geoWatchId |-> watchId, geoWatches |-> watches,
               alerts |-> <<"Geolocation not supported">>]
         ELSE [wasdListening |-> FALSE, geoWatchId |-> 1, geoWatches |-> watches + 1,
               alerts |-> <<>>]

---------------------------------------------------------------------------
(* Persisted variant: start of the process (module top level, lines 282-666) *)

\* loadGame(); updateInventoryUI(); map centred on playerLatLng; redrawGrid();
\* applyMovementMode() with its saveGame()
\* when JSON.parse throws in loadGame the exception ends the module's top level at
\* line 386: no map, no rectangle, no listener, no saveGame
Startup(ls, hasGeo) ==
    LET g   == loadGame(ls)
        sub == applyMovementMode(g.movementMode, FALSE, NULL, 0, hasGeo)
    IN  IF loadGameThrowsAt(ls) # 0
        THEN [worldState    |-> g.worldState,
              playerLatLng  |-> g.playerLatLng,
              heldToken     |-> g.heldToken,
              movementMode  |-> g.movementMode,
              mapCenter     |-> g.playerLatLng,
              gridCells     |-> <<>>,
              wasdListening |-> FALSE,
              geoWatchId    |-> NULL,
              geoWatches    |-> 0,
              alerts        |-> <<>>,
              localStorage  |-> ls,
              scriptFailed  |-> TRUE]
        ELSE [worldState    |-> g.worldState,
              playerLatLng  |-> g.playerLatLng,
              heldToken     |-> g.heldToken,
              movementMode  |-> g.movementMode,
              mapCenter     |-> g.playerLatLng,
              gridCells     |-> redrawGrid(g.worldState, g.playerLatLng),
              wasdListening |-> sub.wasdListening,
              geoWatchId    |-> sub.geoWatchId,
              geoWatches    |-> sub.geoWatches,
              alerts        |-> updateInventoryUI(g.heldToken) \o sub.alerts,
              localStorage  |-> saveGame(g.worldState, g.playerLatLng, g.heldToken,
                                         g.movementMode),
              scriptFailed  |-> FALSE]

\* the process state becomes the one Startup computes from the items ls
StartProcess(ls, hasGeo) ==
    \E st \in {Startup(ls, hasGeo)} :
        /\ worldState' = st.worldState
        /\ playerLatLng' = st.playerLatLng
        /\ heldToken' = st.heldToken
        /\ movementMode' = st.movementMode
        /\ mapCenter' = st.mapCenter
        /\ gridCells' = st.gridCells
        /\ wasdListening' = st.wasdListening
        /\ geoWatchId' = st.geoWatchId
        /\ alerts' = st.alerts
        /\ localStorage' = st.localStorage
        /\ geoWatches' = st.geoWatches
        /\ scriptFailed' = st.scriptFailed

---------------------------------------------------------------------------
(* Persisted variant: handlers *)

\* mutant: the merge does not empty the cell
handleCellClick_MergeKeepsCell(ws, held, p, i_real, j_real) ==
    LET k == key(i_real, j_real)
        tokenValue == getCellToken(ws, i_real, j_real)
    IN  IF ~isCellNearby(p, i_real, j_real)
        THEN [op |-> "far", worldState |-> ws, heldToken |-> held]
        ELSE IF tokenValue = NULL /\ held # NULL
        THEN [op |-> "place", worldState |-> MapSet(ws, k, held), heldToken |-> NULL]
        ELSE IF tokenValue # NULL /\ held = NULL
        THEN [op |-> "pickup", worldState |-> MapSet(ws, k, NULL), heldToken |-> tokenValue]
        ELSE IF tokenValue # NULL /\ held = tokenValue
        THEN [op |-> "merge", worldState |-> ws, heldToken |-> held * 2]
        ELSE [op |-> "reject", worldState |-> ws, heldToken |-> held]

\* mutant: the pickup records no empty override
handleCellClick_PickupKeepsCell(ws, held, p, i_real, j_real) ==
    LET k == key(i_real, j_real)
        tokenValue == getCellToken(ws, i_real, j_real)
    IN  IF ~isCellNearby(p, i_real, j_real)
        THEN [op |-> "far", worldState |-> ws, heldToken |-> held]
        ELSE IF tokenValue = NULL /\ held # NULL
        THEN [op |-> "place", worldState |-> MapSet(ws, k, held), heldToken |-> NULL]
        ELSE IF tokenValue # NULL /\ held = NULL
        THEN [op |-> "pickup", worldState |-> ws, heldToken |-> tokenValue]
        ELSE IF tokenValue # NULL /\ held = tokenValue
        THEN [op |-> "merge", worldState |-> MapSet(ws, k, NULL), heldToken |-> held * 2]
        ELSE [op |-> "reject", worldState |-> ws, heldToken |-> held]

\* mutant: the place does not clear the held slot
handleCellClick_PlaceKeepsHeld(ws, held, p, i_real, j_real) ==
    LET k == key(i_real, j_real)
        tokenValue == getCellToken(ws, i_real, j_real)
    IN  IF ~isCellNearby(p, i_real, j_real)
        THEN [op |-> "far", worldState |-> ws, heldToken |-> held]
        ELSE IF tokenValue = NULL /\ held # NULL
        THEN [op |-> "place", worldState |-> MapSet(ws, k, held), heldToken |-> held]
        ELSE IF tokenValue # NULL /\ held = NULL
        THEN [op |-> "pickup", worldState |-> MapSet(ws, k, NULL), heldToken |-> tokenValue]
        ELSE IF tokenValue # NULL /\ held = tokenValue
        THEN [op |-> "merge", worldState |-> MapSet(ws, k, NULL), heldToken |-> held * 2]
        ELSE [op |-> "reject", worldState |-> ws, heldToken |-> held]

\* mutant: the merge does not compare the two values
handleCellClick_MergeUnequal(ws, held, p, i_real, j_real) ==
    LET k == key(i_real, j_real)
        tokenValue == getCellToken(ws, i_real, j_real)
    IN  IF ~isCellNearby(p, i_real, j_real)
        THEN [op |-> "far", worldState |-> ws, heldToken |-> held]
        ELSE IF tokenValue = NULL /\ held # NULL
        THEN [op |-> "place", worldState |-> MapSet(ws, k, held), heldToken |-> NULL]
        ELSE IF tokenValue # NULL /\ held = NULL
        THEN [op |-> "pickup", worldState |-> MapSet(ws, k, NULL), heldToken |-> tokenValue]
        ELSE IF tokenValue # NULL /\ held # NULL
        THEN [op |-> "merge", worldState |-> MapSet(ws, k, NULL), heldToken |-> held * 2]
        ELSE [op |-> "reject", worldState |-> ws, heldToken |-> held]

\* mutant: the pickup empties the cell with 0 instead of null
handleCellClick_PickupStoresZero(ws, held, p, i_real, j_real) ==
    LET k == key(i_real, j_real)
        tokenValue == getCellToken(ws, i_real, j_real)
    IN  IF ~isCellNearby(p, i_real, j_real)
        THEN [op |-> "far", worldState |-> ws, heldToken |-> held]
        ELSE IF tokenValue = NULL /\ held # NULL
        THEN [op |-> "place", worldState |-> MapSet(ws, k, held), heldToken |-> NULL]
        ELSE IF tokenValue # NULL /\ held = NULL
        THEN [op |-> "pickup", worldState |-> MapSet(ws, k, 0), heldToken |-> tokenValue]
        ELSE IF tokenValue # NULL /\ held = tokenValue
        THEN [op |-> "merge", worldState |-> MapSet(ws, k, NULL), heldToken |-> held * 2]
        ELSE [op |-> "reject", worldState |-> ws, heldToken |-> held]

\* mutant: the pickup deletes the entry of the cell instead of storing null
handleCellClick_PickupDeletes(ws, held, p, i_real, j_real) ==
    LET k == key(i_real, j_real)
        tokenValue == getCellToken(ws, i_real, j_real)
    IN  IF ~isCellNearby(p, i_real, j_real)
        THEN [op |-> "far", worldState |-> ws, heldToken |-> held]
        ELSE IF tokenValue = NULL /\ held # NULL
        THEN [op |-> "place", worldState |-> MapSet(ws, k, held), heldToken |-> NULL]
        ELSE IF tokenValue # NULL /\ held = NULL
        THEN [op |-> "pickup", worldState |-> [x \in (DOMAIN ws) \ {k} |-> ws[x]],
              heldToken |-> tokenValue]
        ELSE IF tokenValue # NULL /\ held = tokenValue
        THEN [op |-> "merge", worldState |-> MapSet(ws, k, NULL), heldToken |-> held * 2]
        ELSE [op |-> "reject", worldState |-> ws, heldToken |-> held]

\* mutant: the merge empties the cell without doubling the held token
handleCellClick_MergeNotDoubled(ws, held, p, i_real, j_real) ==
    LET k == key(i_real, j_real)
        tokenValue == getCellToken(ws, i_real, j_real)
    IN  IF ~isCellNearby(p, i_real, j_real)
        THEN [op |-> "far", worldState |-> ws, heldToken |-> held]
        ELSE IF tokenValue = NULL /\ held # NULL
        THEN [op |-> "place", worldState |-> MapSet(ws, k, held), heldToken |-> NULL]
        ELSE IF tokenValue # NULL /\ held = NULL
        THEN [op |-> "pickup", worldState |-> MapSet(ws, k, NULL), heldToken |-> tokenValue]
        ELSE IF tokenValue # NULL /\ held = tokenValue
        THEN [op |-> "merge", worldState |-> MapSet(ws, k, NULL), heldToken |-> held]
        ELSE [op |-> "reject", worldState |-> ws, heldToken |-> held]

\* the outcome of handleCellClick(i_real, j_real) in the state (ws, held, p)
handleCellClick(ws, held, p, i_real, j_real) ==
    LET k == key(i_real, j_real)
        tokenValue == getCellToken(ws, i_real, j_real)
    IN  IF ~isCellNearby(p, i_real, j_real)
        THEN [op |-> "far", worldState |-> ws, heldToken |-> held]
        ELSE IF tokenValue = NULL /\ held # NULL
        THEN [op |-> "place", worldState |-> MapSet(ws, k, held), heldToken |-> NULL]
        ELSE IF tokenValue # NULL /\ held = NULL
        THEN [op |-> "pickup", worldState |-> MapSet(ws, k, NULL), heldToken |-> tokenValue]
        ELSE IF tokenValue # NULL /\ held = tokenValue
        THEN [op |-> "merge", worldState |-> MapSet(ws, k, NULL), heldToken |-> held * 2]
        ELSE [op |-> "reject", worldState |-> ws, heldToken |-> held]

Interactions == {"place", "pickup", "merge"}

\* history record of a handler: op is the outcome of a click ("far", "reject" or an
\* interaction), "restart" after a start of the process, "reset" after newGame, "none"
\* after any other handler
NoCell == [i |-> 0, j |-> 0]
Event(op, c) == [op |-> op, cell |-> IF op \in Interactions THEN c ELSE NoCell]

\* click on the rectangle (or label) of real cell c
Click(c) ==
    /\ variant = "persisted"
    /\ c \in DOMAIN gridCells
    /\ \E r \in {handleCellClick(worldState, heldToken, playerLatLng, c.i, c.j)},
          k \in {key(c.i, c.j)} :
        /\ lastEvent' = Event(r.op, c)
        /\ IF r.op \in Interactions
           THEN /\ worldState' = r.worldState
                /\ heldToken' = r.heldToken
                /\ alerts' = updateInventoryUI(r.heldToken)
                /\ localStorage' = saveGame(r.worldState, playerLatLng, r.heldToken, movementMode)
                /\ gridCells' = redrawGrid(r.worldState, mapCenter)
                /\ written' = MapSet(written, k, getCellToken(r.worldState, c.i, c.j))
           ELSE /\ alerts' = <<>>
                /\ UNCHANGED <<worldState, heldToken, localStorage, gridCells, written>>
        /\ UNCHANGED <<variant, inventoryValue, cellOverrides, scriptFailed, geoWatches,
                    playerLatLng, mapCenter, visibleCellState, movementMode,
                       wasdListening, geoWatchId>>

\* the position after one WASD key
Step(p, k) ==
    latLng(p.lat + (IF k = "w" THEN TILE_DEGREES ELSE 0) - (IF k = "s" THEN TILE_DEGREES ELSE 0),
           p.lng - (IF k = "a" THEN TILE_DEGREES ELSE 0) + (IF k = "d" THEN TILE_DEGREES ELSE 0))

\* the player is at p: marker, map.setView, saveGame, redrawGrid
PlayerMoved(p) ==
    /\ playerLatLng' = p
    /\ mapCenter' = p
    /\ localStorage' = saveGame(worldState, p, heldToken, movementMode)
    /\ gridCells' = redrawGrid(worldState, p)
    /\ alerts' = <<>>
    /\ UNCHANGED <<variant, inventoryValue, cellOverrides, scriptFailed, geoWatches,
                    heldToken, worldState, visibleCellState, movementMode,
                   wasdListening, geoWatchId, written>>

\* WasdMovement.handler
KeyDown(k) ==
    /\ variant = "persisted"
    /\ wasdListening
    /\ InMoveWindow(Step(playerLatLng, k))
    /\ lastEvent' = Event("none", NoCell)
    /\ PlayerMoved(Step(playerLatLng, k))

\* success callback of the geolocation watch
GeoUpdate(pos) ==
    /\ variant = "persisted"
    /\ geoWatches > 0
    /\ lastEvent' = Event("none", NoCell)
    /\ PlayerMoved(pos)

\* error callback of the geolocation watch
GeoError ==
    /\ variant = "persisted"
    /\ geoWatches > 0
    /\ lastEvent' = Event("none", NoCell)
    /\ alerts' = <<"Unable to retrieve location">>
    /\ UNCHANGED <<variant, inventoryValue, cellOverrides, scriptFailed, geoWatches,
                    playerLatLng, mapCenter, heldToken, worldState, visibleCellState,
                   gridCells, movementMode, wasdListening, geoWatchId, localStorage, written>>

\* the user drags the map: "moveend" runs redrawGrid
Pan(center) ==
    /\ variant = "persisted"
    /\ ~scriptFailed
    /\ center # mapCenter
    /\ lastEvent' = Event("none", NoCell)
    /\ mapCenter' = center
    /\ gridCells' = redrawGrid(worldState, center)
    /\ alerts' = <<>>
    /\ UNCHANGED <<variant, inventoryValue, cellOverrides, scriptFailed, geoWatches,
                    playerLatLng, heldToken, worldState, visibleCellState,
                   movementMode, wasdListening, geoWatchId, localStorage, written>>

\* hasGeo: navigator.geolocation is available.  After a failed start the button
\* still calls toggleMovementMode: movementMode is assigned, then applyMovementMode
\* reads the bindings wasd / geo that were never initialised and throws.
toggleMovementMode(hasGeo) ==
    LET mode == IF movementMode = "wasd" THEN "geo" ELSE "wasd"
        sub  == applyMovementMode(mode, wasdListening, geoWatchId, geoWatches, hasGeo)
    IN  /\ variant = "persisted"
        /\ lastEvent' = Event("none", NoCell)
        /\ movementMode' = mode
        /\ IF scriptFailed
           THEN /\ alerts' = <<>>
                /\ UNCHANGED <<wasdListening, geoWatchId, geoWatches, localStorage>>
           ELSE /\ wasdListening' = sub.wasdListening
                /\ geoWatchId' = sub.geoWatchId
                /\ geoWatches' = sub.geoWatches
                /\ alerts' = sub.alerts
                /\ localStorage' = saveGame(worldState, playerLatLng, heldToken, mode)
        /\ UNCHANGED <<variant, inventoryValue, cellOverrides, scriptFailed, playerLatLng,
                       mapCenter, heldToken, worldState, visibleCellState, gridCells, written>>

\* the page is closed and opened again
Restart(hasGeo) ==
    /\ variant = "persisted"
    /\ lastEvent' = Event("restart", NoCell)
    /\ StartProcess(localStorage, hasGeo)
    /\ UNCHANGED <<variant, inventoryValue, cellOverrides, visibleCellState, written>>

\* click on the rectangle of real cell c whose handler reaches the alert of checkWin:
\* handleCellClick has changed worldState and heldToken and is suspended in
\* updateInventoryUI, before saveGame; the page is closed while the notification
\* shows and opened again
ClickStoppedAtAlert(c, hasGeo) ==
    /\ variant = "persisted"
    /\ ~scriptFailed
    /\ c \in DOMAIN gridCells
    /\ \E r \in {handleCellClick(worldState, heldToken, playerLatLng, c.i, c.j)} :
        /\ r.op \in Interactions
        /\ updateInventoryUI(r.heldToken) # <<>>
    /\ lastEvent' = [op |-> "stopped", cell |-> c]
    /\ StartProcess(localStorage, hasGeo)
    /\ UNCHANGED <<variant, inventoryValue, cellOverrides, visibleCellState, written>>

\* mutant: the world state item is not removed
newGame_KeepsWorld(hasGeo) ==
    /\ variant = "persisted"
    /\ lastEvent' = Event("reset", NoCell)
    /\ StartProcess([ClearedStorage EXCEPT ![LS_WORLD] = localStorage[LS_WORLD]], hasGeo)
    /\ written' = EmptyMap
    /\ UNCHANGED <<variant, inventoryValue, cellOverrides, visibleCellState>>

\* newGame: the four items are removed, location.reload()
newGame(hasGeo) ==
    /\ variant = "persisted"
    /\ lastEvent' = Event("reset", NoCell)
    /\ StartProcess(ClearedStorage, hasGeo)
    /\ written' = EmptyMap
    /\ UNCHANGED <<variant, inventoryValue, cellOverrides, visibleCellState>>

---------------------------------------------------------------------------
(* Memoryless variant (main.ts) *)

\* mutant: the spawn value is returned without being stored
getTokenForCell_NoStore(store, i_real, j_real) ==
    LET k == key(i_real, j_real)
    IN  IF k \in DOMAIN store
        THEN [val |-> store[k], store |-> store]
        ELSE [val |-> spawnValue(i_real, j_real), store |-> store]

\* getTokenForCell: the value it returns and the store it leaves
getTokenForCell(store, i_real, j_real) ==
    LET k == key(i_real, j_real)
    IN  IF k \in DOMAIN store
        THEN [val |-> store[k], store |-> store]
        ELSE [val |-> spawnValue(i_real, j_real),
              store |-> MapSet(store, k, spawnValue(i_real, j_real))]

\* the loop of redrawGrid over the rectangles still to draw
RECURSIVE DrawCells(_, _)
DrawCells(acc, todo) ==
    IF todo = {}
    THEN acc
    ELSE LET c == CHOOSE x \in todo : TRUE
             t == getTokenForCell(acc.store, c.i, c.j)
         IN  DrawCells([store |-> t.store, cells |-> (c :> t.val) @@ acc.cells],
                       todo \ {c})

\* mutant: the redraw forgets every entry, also those of the cells it draws
redrawGridMain_ForgetsAll(store, center) ==
    LET drawn == DrawCells([store |-> EmptyMap, cells |-> <<>>], DrawnCells(center))
    IN  [store |-> drawn.store, cells |-> drawn.cells]

\* redrawGrid of main.ts: the store it leaves and the click handlers it creates
\* (real cell -> the tokenVal the handler passes to handleCellClick)
redrawGridMain(store, center) ==
    LET oldKeys    == DOMAIN store
        drawn      == DrawCells([store |-> store, cells |-> <<>>], DrawnCells(center))
        newVisible == { key(c.i, c.j) : c \in DrawnCells(center) }
        kept       == { k \in DOMAIN drawn.store : ~(k \in oldKeys /\ k \notin newVisible) }
    IN  [store |-> [k \in kept |-> drawn.store[k]], cells |-> drawn.cells]

\* mutant: the pickup does not test that nothing is held
handleCellClickMain_PickupWhileHolding(store, held, p, i_real, j_real, tokenValue) ==
    LET k == key(i_real, j_real)
    IN  IF ~isCellNearby(p, i_real, j_real)
        THEN [op |-> "far", store |-> store, heldToken |-> held]
        ELSE IF tokenValue = NULL /\ held # NULL
        THEN [op |-> "place", store |-> MapSet(store, k, held), heldToken |-> NULL]
        ELSE IF tokenValue # NULL
        THEN [op |-> "pickup", store |-> MapSet(store, k, NULL), heldToken |-> tokenValue]
        ELSE [op |-> "reject", store |-> store, heldToken |-> held]

\* the outcome of handleCellClick(i_real, j_real, tokenValue) of main.ts, before its redraw
handleCellClickMain(store, held, p, i_real, j_real, tokenValue) ==
    LET k == key(i_real, j_real)
    IN  IF ~isCellNearby(p, i_real, j_real)
        THEN [op |-> "far", store |-> store, heldToken |-> held]
        ELSE IF tokenValue = NULL /\ held # NULL
        THEN [op |-> "place", store |-> MapSet(store, k, held), heldToken |-> NULL]
        ELSE IF tokenValue # NULL /\ held = NULL
        THEN [op |-> "pickup", store |-> MapSet(store, k, NULL), heldToken |-> tokenValue]
        ELSE IF tokenValue # NULL /\ held = tokenValue
        THEN [op |-> "merge", store |-> MapSet(store, k, NULL), heldToken |-> held * 2]
        ELSE [op |-> "reject", store |-> store, heldToken |-> held]

\* history: the written values of the cells that every redraw since has drawn
StillDrawn(w, center) ==
    LET keys == { key(c.i, c.j) : c \in DrawnCells(center) }
    IN  [k \in (DOMAIN w) \cap keys |-> w[k]]

\* click on the rectangle (or label) of real cell c
ClickMain(c) ==
    /\ variant = "memoryless"
    /\ c \in DOMAIN gridCells
    /\ \E r \in {handleCellClickMain(visibleCellState, heldToken, playerLatLng,
                                      c.i, c.j, gridCells[c])},
          k \in {key(c.i, c.j)} :
        /\ lastEvent' = Event(r.op, c)
        /\ IF r.op \in Interactions
           THEN /\ heldToken' = r.heldToken
                /\ \E d \in {redrawGridMain(r.store, mapCenter)} :
                      /\ visibleCellState' = d.store
                      /\ gridCells' = d.cells
                /\ alerts' = updateInventoryUI(r.heldToken) \o checkWin(r.heldToken)
                /\ written' = StillDrawn(MapSet(written, k,
                                getTokenForCell(r.store, c.i, c.j).val), mapCenter)
           ELSE /\ alerts' = <<>>
                /\ UNCHANGED <<heldToken, visibleCellState, gridCells, written>>
        /\ UNCHANGED <<variant, inventoryValue, cellOverrides, scriptFailed, geoWatches,
                    playerLatLng, mapCenter, worldState, movementMode,
                       wasdListening, geoWatchId, localStorage>>

\* the keydown listener of main.ts
KeyDownMain(k) ==
    LET p == Step(playerLatLng, k)
    IN  /\ variant = "memoryless"
        /\ InMoveWindow(p)
        /\ lastEvent' = Event("none", NoCell)
        /\ playerLatLng' = p
        /\ mapCenter' = p
        /\ alerts' = checkWin(heldToken)
        /\ \E d \in {redrawGridMain(visibleCellState, p)} :
              /\ visibleCellState' = d.store
              /\ gridCells' = d.cells
        /\ written' = StillDrawn(written, p)
        /\ UNCHANGED <<variant, inventoryValue, cellOverrides, scriptFailed, geoWatches,
                    heldToken, worldState, movementMode, wasdListening,
                       geoWatchId, localStorage>>

\* the user drags the map: "moveend" runs redrawGrid
PanMain(center) ==
    /\ variant = "memoryless"
    /\ center # mapCenter
    /\ lastEvent' = Event("none", NoCell)
    /\ mapCenter' = center
    /\ alerts' = <<>>
    /\ \E d \in {redrawGridMain(visibleCellState, center)} :
          /\ visibleCellState' = d.store
          /\ gridCells' = d.cells
    /\ written' = StillDrawn(written, center)
    /\ UNCHANGED <<variant, inventoryValue, cellOverrides, scriptFailed, geoWatches,
                    playerLatLng, heldToken, worldState, movementMode,
                       wasdListening, geoWatchId, localStorage>>

\* main.ts after its top level ran: nothing held, map centred on VISUAL_ORIGIN, first redrawGrid
StartMain ==
    LET d == redrawGridMain(EmptyMap, VISUAL_ORIGIN)
    IN  [playerLatLng |-> VISUAL_ORIGIN, mapCenter |-> VISUAL_ORIGIN, heldToken |-> NULL,
         visibleCellState |-> d.store, gridCells |-> d.cells,
         alerts |-> updateInventoryUI(NULL)]

\* the page is closed and opened again
RestartMain ==
    /\ variant = "memoryless"
    /\ lastEvent' = Event("restart", NoCell)
    /\ playerLatLng' = StartMain.playerLatLng
    /\ mapCenter' = StartMain.mapCenter
    /\ heldToken' = StartMain.heldToken
    /\ visibleCellState' = StartMain.visibleCellState
    /\ gridCells' = StartMain.gridCells
    /\ alerts' = StartMain.alerts
    /\ written' = EmptyMap
    /\ UNCHANGED <<variant, inventoryValue, cellOverrides, scriptFailed, geoWatches,
                    worldState, movementMode, wasdListening, geoWatchId,
                   localStorage>>

---------------------------------------------------------------------------
(* First variant (part_000 lines 1-235): the player stays at CLASSROOM_LATLNG *)

CLASSROOM_LATLNG == [lat |-> 3699794, lng |-> -12205704]

latLngToCell(lat, lng) ==
    [i |-> (lat - CLASSROOM_LATLNG.lat) \div TILE_DEGREES,
     j |-> (lng - CLASSROOM_LATLNG.lng) \div TILE_DEGREES]

cellToBounds(i, j) ==
    [lat1 |-> CLASSROOM_LATLNG.lat + i * TILE_DEGREES,
     lng1 |-> CLASSROOM_LATLNG.lng + j * TILE_DEGREES,
     lat2 |-> CLASSROOM_LATLNG.lat + (i + 1) * TILE_DEGREES,
     lng2 |-> CLASSROOM_LATLNG.lng + (j + 1) * TILE_DEGREES]

overrideCellValue(ov, i, j, newValue) == MapSet(ov, key(i, j), newValue)

getOverriddenValue(ov, i, j) == IF key(i, j) \in DOMAIN ov THEN ov[key(i, j)] ELSE NULL

getTokenValue(ov, i, j) ==
    IF getOverriddenValue(ov, i, j) # NULL
    THEN getOverriddenValue(ov, i, j)
    ELSE spawnValueFirst(i, j)

\* isCellNearby of the first variant: the player cell is the cell of CLASSROOM_LATLNG
isCellNearbyFirst(i, j) ==
    LET playerCell == latLngToCell(CLASSROOM_LATLNG.lat, CLASSROOM_LATLNG.lng)
    IN  Abs(i - playerCell.i) <= 3 /\ Abs(j - playerCell.j) <= 3

\* the alerts one call of checkWinCondition raises
checkWinCondition(inv) ==
    IF inv >= 16 THEN <<"You crafted a high-value token! You win!">> ELSE <<>>

\* the outcome of handleCellClick(i, j) of the first variant
handleCellClickFirst(ov, inv, i, j) ==
    LET cellValue == getTokenValue(ov, i, j)
    IN  IF ~isCellNearbyFirst(i, j)
        THEN [op |-> "far", cellOverrides |-> ov, inventoryValue |-> inv, alerts |-> <<>>]
        ELSE IF inv = 0
        THEN IF cellValue > 0
             THEN [op |-> "pickup", cellOverrides |-> overrideCellValue(ov, i, j, 0),
                   inventoryValue |-> cellValue, alerts |-> <<>>]
             ELSE [op |-> "reject", cellOverrides |-> ov, inventoryValue |-> inv,
                   alerts |-> <<>>]
        ELSE IF cellValue = inv /\ cellValue > 0
        THEN \* inventoryValue is 0 when checkWinCondition runs
             [op |-> "merge", cellOverrides |-> overrideCellValue(ov, i, j, inv * 2),
              inventoryValue |-> 0, alerts |-> checkWinCondition(0)]
        ELSE [op |-> "reject", cellOverrides |-> ov, inventoryValue |-> inv, alerts |-> <<>>]

\* drawVisibleCells: the cells drawCell is called for, each with the value of its label
drawVisibleCells(ov, center) ==
    LET bounds == getBounds(center)
        c1 == latLngToCell(bounds.nw.lat, bounds.nw.lng)
        c2 == latLngToCell(bounds.se.lat, bounds.se.lng)
        minI == IF c1.i <= c2.i THEN c1.i ELSE c2.i
        maxI == IF c1.i <= c2.i THEN c2.i ELSE c1.i
        minJ == IF c1.j <= c2.j THEN c1.j ELSE c2.j
        maxJ == IF c1.j <= c2.j THEN c2.j ELSE c1.j
    IN  [c \in [i : (minI - 1)..(maxI + 1), j : (minJ - 1)..(maxJ + 1)] |->
            getTokenValue(ov, c.i, c.j)]

\* the rectangles the user clicks in the first variant: four generated tokens and an
\* empty cell in range, and a cell five cells north of the player
ClickCellsFirst ==
    { [i |-> d[1], j |-> d[2]] :
        d \in {<<0, 0>>, <<1, 0>>, <<-1, -1>>, <<-2, -1>>, <<0, 1>>, <<5, 2>>} }

\* click on the rectangle of cell c
ClickFirst(c) ==
    /\ variant = "first"
    /\ c \in DOMAIN gridCells
    /\ \E r \in {handleCellClickFirst(cellOverrides, inventoryValue, c.i, c.j)} :
        /\ lastEvent' = Event(r.op, c)
        /\ cellOverrides' = r.cellOverrides
        /\ inventoryValue' = r.inventoryValue
        /\ alerts' = r.alerts
        /\ gridCells' = IF r.op \in Interactions
                        THEN drawVisibleCells(r.cellOverrides, mapCenter)
                        ELSE gridCells
    /\ UNCHANGED <<variant, playerLatLng, mapCenter, heldToken, worldState, visibleCellState,
                   movementMode, wasdListening, geoWatchId, localStorage, written,
                   scriptFailed, geoWatches>>

\* the user drags the map: "moveend" runs drawVisibleCells
PanFirst(center) ==
    /\ variant = "first"
    /\ center # mapCenter
    /\ lastEvent' = Event("none", NoCell)
    /\ mapCenter' = center
    /\ gridCells' = drawVisibleCells(cellOverrides, center)
    /\ alerts' = <<>>
    /\ UNCHANGED <<variant, playerLatLng, heldToken, worldState, visibleCellState,
                   movementMode, wasdListening, geoWatchId, localStorage, written,
                   scriptFailed, geoWatches, inventoryValue, cellOverrides>>

\* the page is closed and opened again: nothing is kept
RestartFirst ==
    /\ variant = "first"
    /\ lastEvent' = Event("restart", NoCell)
    /\ mapCenter' = CLASSROOM_LATLNG
    /\ inventoryValue' = 0
    /\ cellOverrides' = EmptyMap
    /\ gridCells' = drawVisibleCells(EmptyMap, CLASSROOM_LATLNG)
    /\ alerts' = <<>>
    /\ UNCHANGED <<variant, playerLatLng, heldToken, worldState, visibleCellState,
                   movementMode, wasdListening, geoWatchId, localStorage, written,
                   scriptFailed, geoWatches>>

\* the handlers of the first variant
NextFirst ==
    \/ \E c \in ClickCellsFirst : ClickFirst(c)
    \/ \E center \in PanCenters \cup {CLASSROOM_LATLNG} : PanFirst(center)
    \/ RestartFirst

---------------------------------------------------------------------------
(* Specification *)

InitPersisted ==
    /\ variant = "persisted"
    /\ \E st \in { Startup(ls, TRUE) : ls \in StoredGames } :
           /\ worldState = st.worldState
           /\ playerLatLng = st.playerLatLng
           /\ heldToken = st.heldToken
           /\ movementMode = st.movementMode
           /\ mapCenter = st.mapCenter
           /\ gridCells = st.gridCells
           /\ wasdListening = st.wasdListening
           /\ geoWatchId = st.geoWatchId
           /\ alerts = st.alerts
           /\ localStorage = st.localStorage
           /\ geoWatches = st.geoWatches
           /\ scriptFailed = st.scriptFailed
           /\ written = st.worldState
    /\ visibleCellState = EmptyMap

InitMain ==
    /\ variant = "memoryless"
    /\ playerLatLng = StartMain.playerLatLng
    /\ mapCenter = StartMain.mapCenter
    /\ heldToken = StartMain.heldToken
    /\ visibleCellState = StartMain.visibleCellState
    /\ gridCells = StartMain.gridCells
    /\ alerts = StartMain.alerts
    /\ worldState = EmptyMap
    /\ movementMode = "wasd"
    /\ wasdListening = TRUE
    /\ geoWatchId = NULL
    /\ localStorage = ClearedStorage
    /\ geoWatches = 0
    /\ scriptFailed = FALSE
    /\ written = EmptyMap

\* the variables the first variant does not have
NotInFirst ==
    /\ playerLatLng = CLASSROOM_LATLNG
    /\ heldToken = NULL
    /\ worldState = EmptyMap
    /\ visibleCellState = EmptyMap
    /\ movementMode = "wasd"
    /\ wasdListening = FALSE
    /\ geoWatchId = NULL
    /\ localStorage = ClearedStorage
    /\ geoWatches = 0
    /\ scriptFailed = FALSE
    /\ written = EmptyMap

InitFirst ==
    /\ variant = "first"
    /\ mapCenter = CLASSROOM_LATLNG
    /\ inventoryValue = 0
    /\ cellOverrides = EmptyMap
    /\ gridCells = drawVisibleCells(EmptyMap, CLASSROOM_LATLNG)
    /\ alerts = <<>>
    /\ NotInFirst

Init ==
    /\ lastEvent = Event("none", NoCell)
    /\ \/ InitPersisted /\ inventoryValue = 0 /\ cellOverrides = EmptyMap
       \/ InitMain /\ inventoryValue = 0 /\ cellOverrides = EmptyMap
       \/ InitFirst

\* the handlers of the memoryless variant
NextMain ==
    \/ \E c \in ClickCells : ClickMain(c)
    \/ \E k \in WasdKeys : KeyDownMain(k)
    \/ \E center \in PanCenters : PanMain(center)
    \/ RestartMain

Next ==
    \/ \E c \in ClickCells : Click(c)
    \/ \E k \in WasdKeys : KeyDown(k)
    \/ \E pos \in GeoPositions : GeoUpdate(pos)
    \/ GeoError
    \/ \E center \in PanCenters : Pan(center)
    \/ \E hasGeo \in BOOLEAN : toggleMovementMode(hasGeo)
    \/ \E hasGeo \in BOOLEAN : Restart(hasGeo)
    \/ \E hasGeo \in BOOLEAN : newGame(hasGeo)
    \/ \E c \in ClickCells, hasGeo \in BOOLEAN : ClickStoppedAtAlert(c, hasGeo)
    \/ NextMain
    \/ NextFirst

Spec == Init /\ [][Next]_vars

\* the memoryless variant late in a game: a token of 32 is held and a token of 32
\* was placed on the cell one south and two east of the start cell, which every
\* redraw since has drawn
InitMainLate ==
    LET k == key(latLngToRealCell(VISUAL_ORIGIN).i - 1, latLngToRealCell(VISUAL_ORIGIN).j + 2)
        d == redrawGridMain(MapSet(EmptyMap, k, 32), VISUAL_ORIGIN)
    IN  /\ variant = "memoryless"
        /\ playerLatLng = VISUAL_ORIGIN
        /\ mapCenter = VISUAL_ORIGIN
        /\ heldToken = 32
        /\ visibleCellState = d.store
        /\ gridCells = d.cells
        /\ alerts = <<>>
        /\ worldState = EmptyMap
        /\ movementMode = "wasd"
        /\ wasdListening = TRUE
        /\ geoWatchId = NULL
        /\ localStorage = ClearedStorage
        /\ geoWatches = 0
        /\ scriptFailed = FALSE
        /\ written = MapSet(EmptyMap, k, 32)
        /\ lastEvent = Event("none", NoCell)
        /\ inventoryValue = 0
        /\ cellOverrides = EmptyMap

SpecMainLate == InitMainLate /\ [][NextMain]_vars

---------------------------------------------------------------------------
(* Definitions shared by the properties *)

\* every view centre the model can reach
AllCenters ==
    PanCenters \cup GeoPositions
    \cup { p \in { latLng(VISUAL_ORIGIN.lat + d * TILE_DEGREES,
                          VISUAL_ORIGIN.lng + e * TILE_DEGREES) :
                     d \in 0..MaxMove, e \in 0..MaxMove } : InMoveWindow(p) }

\* every cell some redraw can draw
ObservedCells == UNION { DrawnCells(center) : center \in AllCenters }

\* Chebyshev distance of two cells
Chebyshev(a, b) ==
    IF Abs(a.i - b.i) >= Abs(a.j - b.j) THEN Abs(a.i - b.i) ELSE Abs(a.j - b.j)

InRange(c) == Chebyshev(c, latLngToRealCell(playerLatLng)) <= 3

\* what the persisted variant reads for cell c in the current state
CellToken(c) == getCellToken(worldState, c.i, c.j)

\* the step is a click on the rectangle of cell c, in the persisted variant
\* (ClickedMain: in the memoryless variant)
Clicked(c) == lastEvent'.op \notin {"none", "restart", "reset"} /\ Click(c)
ClickedMain(c) == lastEvent'.op \notin {"none", "restart", "reset"} /\ ClickMain(c)

---------------------------------------------------------------------------
(* Properties of the click handler of the persisted variant *)

\* C1: persisted variant, merge correctness: a click on an in-range cell C whose
\* token equals the held token V leaves held = 2V and C empty, and changes the value
\* of no other cell.
C1_MergeCorrect ==
    [][\A c \in DOMAIN gridCells :
          (InRange(c) /\ heldToken # NULL /\ CellToken(c) = heldToken /\ Clicked(c))
          => /\ heldToken' = 2 * heldToken
             /\ CellToken(c)' = NULL
             /\ \A d \in ObservedCells \ {c} : CellToken(d)' = CellToken(d)]_vars

\* a merge of two tokens of value 2 happened in the persisted variant
C1_Witness ==
    /\ variant = "persisted"
    /\ lastEvent.op = "merge"
    /\ heldToken = 4
    /\ CellToken(lastEvent.cell) = NULL

\* C2: both variants, range enforcement: a click on a cell whose Chebyshev distance
\* from the cell of the player's current position is greater than 3 changes neither
\* the held token nor any store entry (nor the persisted record), whatever the cell
\* holds and whatever is held.
C2_RangeEnforced ==
    [][\A c \in DOMAIN gridCells :
          (~InRange(c) /\ (Clicked(c) \/ ClickedMain(c)))
          => UNCHANGED <<heldToken, worldState, visibleCellState, localStorage>>]_vars

\* an out-of-range click happened after the player moved, with a token held
C2_Witness ==
    /\ lastEvent.op = "far"
    /\ heldToken # NULL
    /\ playerLatLng # VISUAL_ORIGIN

\* C3: persisted variant, pickup: a click on an in-range cell C holding V with
\* nothing held leaves held = V and records an explicit empty override for C, so
\* that C reads empty although the generator still produces its spawn value.
C3_Pickup ==
    [][\A c \in DOMAIN gridCells :
          (InRange(c) /\ heldToken = NULL /\ CellToken(c) # NULL /\ Clicked(c))
          => /\ heldToken' = CellToken(c)
             /\ key(c.i, c.j) \in DOMAIN worldState'
             /\ worldState'[key(c.i, c.j)] = NULL
             /\ CellToken(c)' = NULL]_vars

\* a generated token was picked up: the cell reads empty, the generator still gives V
C3_Witness ==
    /\ variant = "persisted"
    /\ lastEvent.op = "pickup"
    /\ spawnValue(lastEvent.cell.i, lastEvent.cell.j) = heldToken
    /\ heldToken # NULL
    /\ CellToken(lastEvent.cell) = NULL

\* C4: persisted variant, place: a click on an in-range empty cell C with V held
\* leaves C = V and held = empty; a click on C right after it is a pickup that
\* returns exactly V to the held slot.
C4_PlaceRoundTrip ==
    [][\A c \in DOMAIN gridCells :
          /\ (InRange(c) /\ heldToken # NULL /\ CellToken(c) = NULL /\ Clicked(c))
             => (CellToken(c)' = heldToken /\ heldToken' = NULL)
          /\ (InRange(c) /\ lastEvent.op = "place" /\ lastEvent.cell = c /\ Clicked(c))
             => (lastEvent'.op = "pickup" /\ heldToken' = CellToken(c)
                 /\ heldToken' = written[key(c.i, c.j)])]_vars

\* a token was picked up from a cell the generator leaves empty: it had been placed there
C4_Witness ==
    /\ variant = "persisted"
    /\ lastEvent.op = "pickup"
    /\ spawnValue(lastEvent.cell.i, lastEvent.cell.j) = NULL
    /\ heldToken # NULL

\* C5: persisted variant, rejected click: an in-range click with nothing held on an
\* empty cell, or with V held on a cell holding a different token W, changes neither
\* the held token, nor a store entry, nor the persisted record, and raises no alert.
C5_RejectNoChange ==
    [][\A c \in DOMAIN gridCells :
          (/\ InRange(c)
           /\ \/ (heldToken = NULL /\ CellToken(c) = NULL)
              \/ (heldToken # NULL /\ CellToken(c) # NULL /\ CellToken(c) # heldToken)
           /\ Clicked(c))
          => /\ UNCHANGED <<heldToken, worldState, localStorage>>
             /\ alerts' = <<>>]_vars

\* a click on a cell holding a token other than the held one was rejected
C5_Witness ==
    /\ variant = "persisted"
    /\ lastEvent.op = "reject"
    /\ heldToken # NULL

---------------------------------------------------------------------------
(* Properties of the held slot and of the stores *)

\* the held slot is empty or holds one token value
HeldIsSlot == heldToken = NULL \/ heldToken \in Nat \ {0}

\* C6: both variants, single slot: the held slot is always empty or one token value;
\* a pickup happens only from a state where nothing is held; while V is held, no
\* step replaces it by another value: held stays V, becomes empty or becomes 2V.
C6_SingleSlot ==
    [][/\ HeldIsSlot /\ HeldIsSlot'
       /\ lastEvent'.op = "pickup" => heldToken = NULL
       /\ heldToken # NULL => heldToken' \in {heldToken, NULL, 2 * heldToken}]_vars

\* with a token held, a click on a cell holding another token was refused (memoryless variant)
C6_Witness ==
    /\ variant = "memoryless"
    /\ lastEvent.op = "reject"
    /\ heldToken # NULL

\* C7: persisted variant, no reset in between: every cell reads the value written by
\* the last successful interaction on it, or the generator's spawn value if there was
\* none, in every state and in the state a restart would load from the stored items.
C7_OverridePrecedence ==
    variant = "persisted" =>
        \A c \in ObservedCells :
            LET k == key(c.i, c.j)
                expected == IF k \in DOMAIN written THEN written[k] ELSE spawnValue(c.i, c.j)
            IN  /\ CellToken(c) = expected
                /\ getCellToken(loadGame(localStorage).worldState, c.i, c.j) = expected

\* after a restart a picked-up generated token is still gone and a placed token still there
C7_Witness ==
    /\ variant = "persisted"
    /\ lastEvent.op = "restart"
    /\ \E c \in ObservedCells : spawnValue(c.i, c.j) # NULL /\ CellToken(c) = NULL
    /\ \E c \in ObservedCells : spawnValue(c.i, c.j) = NULL /\ CellToken(c) # NULL

\* what the memoryless variant reads for cell c in the current state
TokenForCell(c) == getTokenForCell(visibleCellState, c.i, c.j).val

\* the keys of the cells the redraw of the current view draws
DrawnKeys == { key(c.i, c.j) : c \in DrawnCells(mapCenter) }

C10_SavedEqualsMemory ==
    /\ [](variant = "persisted" /\ ~scriptFailed =>
            loadGame(localStorage) =
                [worldState |-> worldState, playerLatLng |-> playerLatLng,
                 heldToken |-> heldToken, movementMode |-> movementMode])
    /\ [][lastEvent'.op = "restart" /\ variant = "persisted" /\ ~scriptFailed
          => UNCHANGED <<worldState, playerLatLng, heldToken, movementMode>>]_vars

\* a restart in geolocation mode, away from the start position, with a token held
\* and two overrides stored
C10_Witness ==
    /\ variant = "persisted"
    /\ lastEvent.op = "restart"
    /\ movementMode = "geo"
    /\ playerLatLng # VISUAL_ORIGIN
    /\ heldToken # NULL
    /\ Cardinality(DOMAIN worldState) = 2

---------------------------------------------------------------------------
(* Properties of startup, movement sources and reset (persisted variant) *)

\* C11 as stated: persisted variant: a stored item with malformed data is treated
\* as absent: the start completes with the defaults, it never ends in a failed
\* state, and the rectangles and their click handlers exist afterwards.
C11_MalformedIsAbsent ==
    variant = "persisted" =>
        /\ ~scriptFailed
        /\ DOMAIN gridCells # {}
        /\ loadGameThrowsAt(localStorage) = 0

\* C12 as stated: persisted variant: a toggle from "wasd" that requests the
\* geolocation source while it is not available notifies the user and stays in the
\* previous mode: movementMode in memory and in the stored item is still "wasd" and
\* the keydown listener is still attached.
C12_StaysInPreviousMode ==
    [][(/\ variant = "persisted"
        /\ ~scriptFailed
        /\ movementMode = "wasd"
        /\ toggleMovementMode(FALSE))
       => /\ alerts' = <<"Geolocation not supported">>
          /\ movementMode' = "wasd"
          /\ localStorage'[LS_MODE] = Item("wasd")
          /\ wasdListening']_vars

\* C13: persisted variant: in every state at most one movement source is subscribed:
\* never the keydown listener together with a geolocation watch, never more than one
\* watch, and the only watch is the one GeoMovement.watchId names; a toggle ends the
\* subscription of the previous source, and a key or a geolocation update moves the
\* player once, to the position of that one event.
C13_OneMovementSource ==
    /\ [](variant = "persisted" =>
            /\ ~(wasdListening /\ geoWatches > 0)
            /\ geoWatches \in {0, 1}
            /\ (geoWatches = 1) = (geoWatchId # NULL))
    /\ [][\A hasGeo \in BOOLEAN :
            (variant = "persisted" /\ ~scriptFailed /\ toggleMovementMode(hasGeo))
            => /\ wasdListening => ~wasdListening'
               /\ geoWatches > 0 => geoWatches' = 0]_vars
    /\ [][/\ \A k \in WasdKeys : KeyDown(k) => playerLatLng' = Step(playerLatLng, k)
          /\ \A pos \in GeoPositions : GeoUpdate(pos) => playerLatLng' = pos]_vars

\* after a toggle the geolocation watch is the only source and has moved the player
C13_Witness ==
    /\ variant = "persisted"
    /\ movementMode = "geo"
    /\ geoWatches = 1
    /\ ~wasdListening
    /\ playerLatLng \in GeoPositions
    /\ heldToken # NULL

\* C14: persisted variant: newGame, from any state, leaves the restarted process in
\* the default state (no override, nothing held, player at VISUAL_ORIGIN, mode
\* "wasd") and the four stored items without any data of the game before: they are
\* the items a first start writes, so no entry of the previous override map survives.
C14_ResetToDefaults ==
    [][\A hasGeo \in BOOLEAN :
          newGame(hasGeo)
          => /\ worldState' = EmptyMap
             /\ heldToken' = NULL
             /\ playerLatLng' = VISUAL_ORIGIN
             /\ movementMode' = "wasd"
             /\ ~scriptFailed'
             /\ localStorage' = saveGame(EmptyMap, VISUAL_ORIGIN, NULL, "wasd")
             /\ \A c \in ObservedCells : CellToken(c)' = spawnValue(c.i, c.j)]_vars

\* newGame ran: a generated token that an earlier game could pick up is back in its cell
C14_Witness ==
    /\ variant = "persisted"
    /\ lastEvent.op = "reset"
    /\ worldState = EmptyMap
    /\ \E c \in ClickCells : c \in DOMAIN gridCells /\ gridCells[c] = 1

\* a game of the first variant on a map with enough tokens in range, late in the
\* game: the tokens around the player were merged into two tokens of 8
InitFirstLate ==
    /\ lastEvent = Event("none", NoCell)
    /\ variant = "first"
    /\ mapCenter = CLASSROOM_LATLNG
    /\ inventoryValue = 0
    /\ cellOverrides = overrideCellValue(overrideCellValue(EmptyMap, 0, 0, 8), 1, 0, 8)
    /\ gridCells = drawVisibleCells(cellOverrides, CLASSROOM_LATLNG)
    /\ alerts = <<>>
    /\ NotInFirst

SpecFirstLate == InitFirstLate /\ [][NextFirst]_vars

---------------------------------------------------------------------------
(* Properties of the win notification *)

\* the number of win notifications among the alerts a
WinAlerts(a) == Cardinality({ n \in 1..Len(a) : a[n] = "You win!" })

\* C15: persisted variant: a click that is a pickup or a merge and leaves held >= 50
\* raises exactly one win notification; every other click (place, rejected, out of
\* range), every move, geolocation update, pan and toggle raises none; and with a
\* winning token held a click on an empty cell in range still places it.
C15_WinOncePerMutation ==
    [][variant = "persisted" =>
        /\ \A c \in DOMAIN gridCells :
              Clicked(c) =>
                /\ WinAlerts(alerts') =
                      IF lastEvent'.op \in {"pickup", "merge"} /\ heldToken' >= 50
                      THEN 1 ELSE 0
                /\ (heldToken # NULL /\ heldToken >= 50 /\ InRange(c) /\ CellToken(c) = NULL)
                   => (lastEvent'.op = "place" /\ CellToken(c)' = heldToken)
        /\ lastEvent'.op = "none" => WinAlerts(alerts') = 0]_vars

\* a token of 64 was merged, placed and picked up again: the pickup notified once more
C15_Witness ==
    /\ variant = "persisted"
    /\ lastEvent.op = "pickup"
    /\ heldToken = 64
    /\ WinAlerts(alerts) = 1

\* C16 as stated: memoryless variant: a pickup or a merge that leaves held >= 50
\* raises exactly one win notification, and a WASD move, which does not change the
\* held token, raises none.
C16_WinOncePerCrossing ==
    [][variant = "memoryless" =>
        /\ \A c \in DOMAIN gridCells :
              (ClickedMain(c) /\ lastEvent'.op \in {"pickup", "merge"} /\ heldToken' >= 50)
              => WinAlerts(alerts') = 1
        /\ \A k \in WasdKeys : KeyDownMain(k) => WinAlerts(alerts') = 0]_vars

---------------------------------------------------------------------------
(* Properties of the first variant *)

\* C17 as stated: first variant: with inventoryValue = V > 0, a click on a cell in
\* range whose value is V leaves inventoryValue = 2V and the clicked cell empty.
C17_MergeDoublesHeld ==
    [][\A c \in ClickCellsFirst :
          (/\ ClickFirst(c)
           /\ inventoryValue > 0
           /\ isCellNearbyFirst(c.i, c.j)
           /\ getTokenValue(cellOverrides, c.i, c.j) = inventoryValue)
          => /\ inventoryValue' = 2 * inventoryValue
             /\ getTokenValue(cellOverrides', c.i, c.j) = 0]_vars

\* C18 as stated: first variant: every handler that takes inventoryValue from below
\* 16 to 16 or more issues a win notification.
C18_WinWhenThresholdReached ==
    [][(variant = "first" /\ inventoryValue < 16 /\ inventoryValue' >= 16)
       => \E n \in 1..Len(alerts') : alerts'[n] = "You crafted a high-value token! You win!"]_vars

---------------------------------------------------------------------------
(* Properties of the grid geometry and of the generators *)

\* the positions of the rectangle b, its border included
PositionsIn(b) == { latLng(la, ln) : la \in b.lat2..b.lat1, ln \in b.lng1..b.lng2 }

\* the positions strictly inside the rectangle b
PositionsInside(b) ==
    { latLng(la, ln) : la \in (b.lat2 + 1)..(b.lat1 - 1), ln \in (b.lng1 + 1)..(b.lng2 - 1) }

\* C19 as stated: persisted variant and main.ts: for every rectangle drawn, every
\* position inside it maps under latLngToRealCell to the cell its click handler
\* passes to handleCellClick, and the rectangle that contains the player's position
\* has the player's own cell.
C19_RectangleIsInverseImage ==
    (variant \in {"persisted", "memoryless"} /\ ~scriptFailed)
    => \A v \in VisualCells(mapCenter) :
          LET b == visualCellToBounds(v.i, v.j)
              handled == latLngToRealCell(getCenter(b))
          IN  /\ handled \in DOMAIN gridCells
              /\ \A p \in PositionsInside(b) : latLngToRealCell(p) = handled
              /\ playerLatLng \in PositionsIn(b)
                 => handled = latLngToRealCell(playerLatLng)

\* the value the generator of the running variant returns for cell (i, j)
Generated(i, j) ==
    CASE variant = "first" -> getTokenValue(cellOverrides, i, j)
      [] variant = "persisted" -> getCellToken(worldState, i, j)
      [] OTHER -> getTokenForCell(visibleCellState, i, j).val

\* the store of the running variant has an entry for cell (i, j)
HasOverride(i, j) ==
    CASE variant = "first" -> key(i, j) \in DOMAIN cellOverrides
      [] variant = "persisted" -> key(i, j) \in DOMAIN worldState
      [] OTHER -> key(i, j) \in DOMAIN visibleCellState

\* C20 as stated: the generator of each variant gives a cell without override the
\* value 1 for a roll below 0.075, the value 2 for a roll from 0.075 to below 0.15
\* and empty for a roll of 0.15 or more.  The cells (0,0) .. (999,0) have every
\* roll 0.000 .. 0.999, among them 0.05, 0.10 and 0.20; empty is 0 in the first
\* variant, which has no null.
C20_SpawnRule ==
    \A i \in 0..999 :
        ~HasOverride(i, 0)
        => Generated(i, 0) =
              (IF luck(i, 0) < 75 THEN 1
               ELSE IF luck(i, 0) < 150 THEN 2
               ELSE IF variant = "first" THEN 0 ELSE NULL)

---------------------------------------------------------------------------
(* Properties of token values and of the override store (persisted variant) *)

RECURSIVE IsPowerOfTwo(_)
IsPowerOfTwo(n) == n >= 1 /\ (n = 1 \/ (n % 2 = 0 /\ IsPowerOfTwo(n \div 2)))

\* a slot value: empty (null) or a positive power of two
TokenOrEmpty(v) == v = NULL \/ IsPowerOfTwo(v)

\* C21: persisted variant: in every reachable state the held token, every entry of
\* the override map and every value getCellToken returns is null (empty) or a
\* positive power of two, never 0; the same holds for the state the stored items
\* load to.
C21_PowersOfTwo ==
    (variant = "persisted" /\ ~scriptFailed)
    => /\ TokenOrEmpty(heldToken)
       /\ \A k \in DOMAIN worldState : TokenOrEmpty(worldState[k])
       /\ \A c \in ObservedCells : TokenOrEmpty(CellToken(c))
       /\ TokenOrEmpty(loadGame(localStorage).heldToken)
       /\ \A k \in DOMAIN loadGame(localStorage).worldState :
              TokenOrEmpty(loadGame(localStorage).worldState[k])

\* from the default state a merge made a token of 2, it was placed, and the page
\* was started again: the map has an emptied cell (null) and a merged token
C21_Witness ==
    /\ variant = "persisted"
    /\ lastEvent.op = "restart"
    /\ heldToken = NULL
    /\ \E k \in DOMAIN worldState : worldState[k] = NULL
    /\ \E k \in DOMAIN worldState : worldState[k] = 2
    /\ \A k \in DOMAIN worldState : worldState[k] \in {NULL, 2}

\* C22: persisted variant: the keys of the override map are exactly the cells that
\* were the target of a successful pickup, place or merge since the last reset, also
\* in the stored world state; an interaction adds at most the key of its cell, and
\* every other handler (rejected or out-of-range click, move, geolocation update,
\* pan, toggle, restart) leaves the key set as it is.
C22_StoreIsTouchedCells ==
    /\ [](variant = "persisted" /\ ~scriptFailed
          => /\ DOMAIN worldState = DOMAIN written
             /\ DOMAIN loadGame(localStorage).worldState = DOMAIN written)
    /\ [][(variant = "persisted" /\ ~scriptFailed /\ lastEvent'.op # "reset")
          => DOMAIN worldState' =
                IF lastEvent'.op \in Interactions
                THEN (DOMAIN worldState) \cup {key(lastEvent'.cell.i, lastEvent'.cell.j)}
                ELSE DOMAIN worldState]_vars

\* two tokens of 1 were merged, the token of 2 was placed on one of the two emptied
\* cells and picked up again: the cell was emptied twice and the map has two entries
C22_Witness ==
    /\ variant = "persisted"
    /\ lastEvent.op = "pickup"
    /\ heldToken = 2
    /\ Cardinality(DOMAIN worldState) = 2
    /\ \A k \in DOMAIN worldState : worldState[k] = NULL
    /\ Cardinality(DOMAIN gridCells) > 2

\* C23 as stated: persisted variant: when a handler shows the win notification the
\* stored held token and override map already equal the values in memory, so after
\* a stop of the process while the notification shows, the next start has the held
\* token and the map the notified action produced.
C23_SavedBeforeOutput ==
    [][\A c \in ClickCells, hasGeo \in BOOLEAN :
          ClickStoppedAtAlert(c, hasGeo)
          => LET r == handleCellClick(worldState, heldToken, playerLatLng, c.i, c.j)
             IN  /\ heldToken' = r.heldToken
                 /\ worldState' = r.worldState]_vars

---------------------------------------------------------------------------
(* Conservation of token value (persisted variant) *)

\* the value of a slot: 0 when empty
ValueOf(v) == IF v = NULL THEN 0 ELSE v

\* the cells of S in some order
RECURSIVE CellsInOrder(_)
CellsInOrder(S) ==
    IF S = {}
    THEN <<>>
    ELSE LET c == CHOOSE x \in S : TRUE
         IN  <<c>> \o CellsInOrder(S \ {c})

\* every cell some redraw can draw, in some order
ObservedCellsInOrder == CellsInOrder(ObservedCells)

\* the sum of getCellToken over the first n cells of cells, read from the override map ws
RECURSIVE SumOfCells(_, _, _)
SumOfCells(ws, cells, n) ==
    IF n = 0
    THEN 0
    ELSE ValueOf(getCellToken(ws, cells[n].i, cells[n].j)) + SumOfCells(ws, cells, n - 1)

\* the held value plus the value of every cell a view of the model shows
TotalValue ==
    ValueOf(heldToken)
    + SumOfCells(worldState, ObservedCellsInOrder, Len(ObservedCellsInOrder))

\* C24: persisted variant: the held value (0 when empty) plus the sum of
\* getCellToken over the cells of all views is the same before and after every
\* click (pickup, place, merge, rejected, out of range), move, geolocation update,
\* pan, toggle and restart; only newGame, which resets the world, changes it.
\* (The total depends on heldToken and worldState only, so it is compared across
\* the steps that change one of the two.)
C24_ValueConserved ==
    [][(variant = "persisted" /\ lastEvent'.op # "reset")
       => \/ UNCHANGED <<heldToken, worldState>>
          \/ TotalValue' = TotalValue]_vars

\* in the default world two tokens of 1 were merged into a held token of 2, and the
\* total is still that of the generated world
C24_Witness ==
    /\ variant = "persisted"
    /\ lastEvent.op = "merge"
    /\ heldToken = 2
    /\ TotalValue = SumOfCells(EmptyMap, ObservedCellsInOrder, Len(ObservedCellsInOrder))

====
